---- MODULE Spec2Model ----
(***************************************************************************)
(* Kinetic.Shape (src/src/Shape.js): style resolution, the draw pass,      *)
(* the pixel cache and the two hit-testing strategies, as a state machine. *)
(* Every public method is one action; the helpers it calls are operators   *)
(* over a "run": the canvas context being drawn on, the operations issued  *)
(* on it so far, and whether a TypeError has been raised.                  *)
(***************************************************************************)
EXTENDS Integers, Sequences, FiniteSets, TLC

VARIABLES stage, node, attrs, drawFunc, tempLayer, data, ctx, snapped, last, ncalls

vars == <<stage, node, attrs, drawFunc, tempLayer, data, ctx, snapped, last, ncalls>>

(***************************************************************************)
(* Bounds of the model.                                                    *)
(***************************************************************************)
\* stage.attrs.width and stage.attrs.height: the declared size of the stage
StageW == 2
StageH == 2
\* how many saved states a context may hold (save() is not called beyond it)
MaxDepth == 3
\* how many public calls one behaviour makes
MaxCalls == 3

(***************************************************************************)
(* JavaScript values.  An optional value is <<>> (undefined) or <<v>>.     *)
(***************************************************************************)
None == <<>>
Some(v) == <<v>>
Defined(o) == o # None
Val(o) == o[1]

Max(a, b) == IF a >= b THEN a ELSE b

\* The objects of the scene: two shapes, one group above the first shape.
Shapes == {"s1", "s2"}
Layers == {"layer", "pathLayer", "bufferLayer"}

(***************************************************************************)
(* Fill specifications (the values attrs.fill takes).  typ is typeof fill; *)
(* start and end are optional objects with optional x, y, radius, color.   *)
(***************************************************************************)
Pt(x, y, r, c) == [x |-> x, y |-> y, radius |-> r, color |-> c]
FillVal(typ, str, image, offset, repeat, start, end) ==
    [typ |-> typ, str |-> str, image |-> image, offset |-> offset,
     repeat |-> repeat, start |-> start, end |-> end]

FillUndefined == FillVal("undefined", "", None, None, None, None, None)
FillColor(c) == FillVal("string", c, None, None, None, None, None)
FillPattern(off, rep) == FillVal("object", "", Some("img"), off, rep, None, None)
FillGradient(s, e) == FillVal("object", "", None, None, None, s, e)

FillLinear ==
    FillGradient(Some(Pt(Some(0), Some(0), None, Some("red"))),
                 Some(Pt(Some(1), Some(1), None, Some("blue"))))
FillRadial ==
    FillGradient(Some(Pt(Some(0), Some(0), Some(1), Some("red"))),
                 Some(Pt(Some(1), Some(1), Some(2), Some("blue"))))
\* start carries x, y and a radius, end a radius only
FillRadialEndRadius ==
    FillGradient(Some(Pt(Some(0), Some(0), Some(1), Some("red"))),
                 Some(Pt(None, None, Some(2), Some("blue"))))
\* radii only, no coordinates
FillRadiiOnly ==
    FillGradient(Some(Pt(None, None, Some(1), Some("red"))),
                 Some(Pt(None, None, Some(2), Some("blue"))))
\* start and end carry colours only
FillNoCoords ==
    FillGradient(Some(Pt(None, None, None, Some("red"))),
                 Some(Pt(None, None, None, Some("blue"))))
\* an object with no image, no start and no end: {}
FillEmptyObject == FillGradient(None, None)

FillSpecs ==
    { FillUndefined, FillColor("green"),
      FillPattern(Some(<<1, 0>>), None), FillPattern(Some(<<1, 0>>), Some("no-repeat")),
      FillPattern(None, None),
      FillLinear, FillRadial, FillRadialEndRadius, FillRadiiOnly, FillNoCoords, FillEmptyObject }

\* !!fill
Truthy(fill) == fill.typ = "object" \/ (fill.typ = "string" /\ fill.str # "")

(***************************************************************************)
(* Canvas 2D context.  cur is the drawing state save() pushes and          *)
(* restore() pops; the path and the pixels are not part of it.             *)
(***************************************************************************)
Identity == <<1, 0, 0, 1, 0, 0>>
\* m1 * m2 of 2x3 affine matrices <<a, b, c, d, e, f>>
Multiply(m1, m2) ==
    << m1[1] * m2[1] + m1[3] * m2[2],
       m1[2] * m2[1] + m1[4] * m2[2],
       m1[1] * m2[3] + m1[3] * m2[4],
       m1[2] * m2[3] + m1[4] * m2[4],
       m1[1] * m2[5] + m1[3] * m2[6] + m1[5],
       m1[2] * m2[5] + m1[4] * m2[6] + m1[6] >>
Translation(x, y) == <<1, 0, 0, 1, x, y>>
Apply(m, p) == << m[1] * p[1] + m[3] * p[2] + m[5], m[2] * p[1] + m[4] * p[2] + m[6] >>

Paint(kind, color, repeat, geom, stops) ==
    [kind |-> kind, color |-> color, repeat |-> repeat, geom |-> geom, stops |-> stops]
ColorPaint(c) == Paint("color", c, "", <<>>, <<>>)

NoShadow == [color |-> None, blur |-> 0, x |-> 0, y |-> 0]

InitCur ==
    [transform |-> Identity, globalAlpha |-> 100, lineJoin |-> "miter",
     shadow |-> NoShadow, lineWidth |-> 1,
     strokeStyle |-> ColorPaint("black"), fillStyle |-> ColorPaint("black")]

Pixels == (0 .. StageW - 1) \X (0 .. StageH - 1)

InitCtx ==
    [cur |-> InitCur, stack |-> <<>>, path |-> {}, pixels |-> [p \in Pixels |-> 0]]

(***************************************************************************)
(* A run: the context a call draws on (null is TRUE when getContext()      *)
(* returned null), the layer it is the context of, the operations issued   *)
(* so far, and whether an error has been raised.  Once threw is TRUE every *)
(* later step of the call is skipped: the exception unwinds to the caller. *)
(***************************************************************************)
Run(c, null, on) == [c |-> c, null |-> null, on |-> on, log |-> <<>>, threw |-> FALSE]
Raise(r) == [r EXCEPT !.threw = TRUE]

\* a run on another context that goes on from where run prev stopped
Resume(r, prev) == [r EXCEPT !.log = prev.log, !.threw = prev.threw]
\* the contexts of the layers after run r
Put(cx, r) == IF r.null THEN cx ELSE [cx EXCEPT ![Val(r.on)] = r.c]

\* one operation on the context, recorded with the layer it is issued on and
\* the shadow state it runs under
Emit(r, op, by, arg, c2) ==
    IF r.threw THEN r
    ELSE IF r.null THEN Raise(r)
    ELSE [r EXCEPT !.c = c2,
                   !.log = Append(@, [op |-> op, by |-> by, arg |-> arg, on |-> r.on,
                                      shadow |-> r.c.cur.shadow])]

CtxSave(r, by) ==
    Emit(r, "save", by, <<>>, [r.c EXCEPT !.stack = Append(@, r.c.cur)])
CtxRestore(r, by) ==
    Emit(r, "restore", by, <<>>,
         IF r.c.stack = <<>> THEN r.c
         ELSE [r.c EXCEPT !.cur = r.c.stack[Len(r.c.stack)],
                          !.stack = SubSeq(r.c.stack, 1, Len(r.c.stack) - 1)])
CtxTransform(r, m, by) ==
    Emit(r, "transform", by, m, [r.c EXCEPT !.cur.transform = Multiply(@, m)])
CtxTranslate(r, x, y, by) ==
    Emit(r, "translate", by, <<x, y>>,
         [r.c EXCEPT !.cur.transform = Multiply(@, Translation(x, y))])
CtxBeginPath(r, by) == Emit(r, "beginPath", by, <<>>, [r.c EXCEPT !.path = {}])
CtxAddPath(r, pts, by) ==
    Emit(r, "rect", by, pts,
         [r.c EXCEPT !.path = @ \cup {Apply(r.c.cur.transform, p) : p \in pts}])

\* the alpha byte a paint operation leaves on a pixel it covers
AlphaByte(globalAlpha) == (255 * globalAlpha) \div 100
Painted(c) ==
    [c EXCEPT !.pixels = [p \in Pixels |->
        IF p \in c.path THEN Max(c.pixels[p], AlphaByte(c.cur.globalAlpha))
        ELSE c.pixels[p]]]
CtxFill(r, by) == Emit(r, "fill", by, r.c.cur.fillStyle, Painted(r.c))
CtxStroke(r, by) == Emit(r, "stroke", by, r.c.cur.strokeStyle, Painted(r.c))

CtxFillStyle(r, f, by) == Emit(r, "fillStyle", by, f, [r.c EXCEPT !.cur.fillStyle = f])
CtxStrokeStyle(r, f, by) == Emit(r, "strokeStyle", by, f, [r.c EXCEPT !.cur.strokeStyle = f])
CtxLineWidth(r, w, by) == Emit(r, "lineWidth", by, w, [r.c EXCEPT !.cur.lineWidth = w])
CtxLineJoin(r, j, by) == Emit(r, "lineJoin", by, j, [r.c EXCEPT !.cur.lineJoin = j])
CtxGlobalAlpha(r, a, by) == Emit(r, "globalAlpha", by, a, [r.c EXCEPT !.cur.globalAlpha = a])
CtxShadow(r, sh, by) == Emit(r, "shadow", by, sh, [r.c EXCEPT !.cur.shadow = sh])

(***************************************************************************)
(* Shape attributes (this.attrs) and the style helpers.                    *)
(***************************************************************************)
DefaultAttrs ==
    [fill |-> FillUndefined, stroke |-> None, strokeWidth |-> None,
     lineJoin |-> None, detectionType |-> "path", shadowColor |-> None,
     shadowBlur |-> 5, shadowOffset |-> <<0, 0>>]

\* !!this.attrs.stroke, !!this.attrs.strokeWidth
TruthyStr(o) == Defined(o) /\ Val(o) # ""
TruthyNum(o) == Defined(o) /\ Val(o) # 0

\* the shadow parameters applyShadow puts on the context
ShadowOf(a) ==
    [color |-> a.shadowColor, blur |-> a.shadowBlur,
     x |-> a.shadowOffset[1], y |-> a.shadowOffset[2]]

stroke(r, a) ==
    IF TruthyStr(a.stroke) \/ TruthyNum(a.strokeWidth)
    THEN LET color == IF TruthyStr(a.stroke) THEN Val(a.stroke) ELSE "black"
             width == IF TruthyNum(a.strokeWidth) THEN Val(a.strokeWidth) ELSE 2
             r1 == CtxLineWidth(r, width, "stroke")
             r2 == CtxStrokeStyle(r1, ColorPaint(color), "stroke")
         IN  CtxStroke(r2, "stroke")
    ELSE r

applyShadow(r, a) ==
    IF Defined(a.shadowColor) THEN CtxShadow(r, ShadowOf(a), "applyShadow") ELSE r

applyLineJoin(r, a) ==
    IF Defined(a.lineJoin) THEN CtxLineJoin(r, Val(a.lineJoin), "applyLineJoin") ELSE r

\* context.createPattern / createLinearGradient / createRadialGradient: the
\* gradient constructors raise a TypeError on an argument that is not a number,
\* addColorStop raises on a colour that is not a string
CreatePattern(r, repeat) == Emit(r, "createPattern", "fill", repeat, r.c)
AddColorStops(r, c0, c1) == IF c0 = None \/ c1 = None THEN Raise(r) ELSE r
CreateGradient(r, kind, args, c0, c1) ==
    IF \E i \in 1 .. Len(args) : args[i] = None THEN Raise(r)
    ELSE AddColorStops(Emit(r, kind, "fill", args, r.c), c0, c1)
GradientPaint(kind, args, c0, c1) ==
    Paint(kind, "", "", [i \in 1 .. Len(args) |-> Val(args[i])], <<Val(c0), Val(c1)>>)

\* the branch of fill() a fill specification takes; "TypeError" when reading a
\* property of fill.start or fill.end fails because the object is undefined
FillBranch(fill) ==
    LET s == fill.start
        e == fill.end
    IN  IF fill.typ = "string" THEN "color"
        ELSE IF Defined(fill.image) THEN "pattern"
        ELSE IF s = None THEN "TypeError"
        ELSE IF Defined(Val(s).x) /\ Defined(Val(s).y)
             THEN IF e = None THEN "TypeError"
                  ELSE IF Defined(Val(e).x) /\ Defined(Val(e).y) THEN "linear"
                  ELSE IF Defined(Val(s).radius)
                       THEN (IF Defined(Val(e).radius) THEN "radial" ELSE "black")
                       ELSE "black"
        ELSE IF Defined(Val(s).radius)
             THEN IF e = None THEN "TypeError"
                  ELSE IF Defined(Val(e).radius) THEN "radial" ELSE "black"
        ELSE "black"

\* context.translate(o.pos.x, o.pos.y): o.pos is undefined when no offset was given
TranslateByOffset(r, pos) ==
    IF pos = None THEN Raise(r) ELSE CtxTranslate(r, Val(pos)[1], Val(pos)[2], "fill")

PatternFill(r, fill) ==
    LET repeat == IF fill.repeat = None THEN "repeat" ELSE Val(fill.repeat)
        r1 == CreatePattern(r, repeat)
        r2 == CtxSave(r1, "fill")
        r3 == TranslateByOffset(r2, fill.offset)
        r4 == CtxFillStyle(r3, Paint("pattern", "", repeat, <<>>, <<>>), "fill")
        r5 == CtxFill(r4, "fill")
    IN  CtxRestore(r5, "fill")

\* context.fillStyle = grd; context.fill(), unless making the gradient raised
GradientFill(r, kind, args, c0, c1) ==
    IF r.threw THEN r
    ELSE CtxFill(CtxFillStyle(r, GradientPaint(kind, args, c0, c1), "fill"), "fill")

LinearArgs(s, e) == <<s.x, s.y, e.x, e.y>>
LinearFill(r, fill) ==
    LET s == Val(fill.start)
        e == Val(fill.end)
    IN  GradientFill(CreateGradient(r, "createLinearGradient", LinearArgs(s, e), s.color, e.color),
                     "linear", LinearArgs(s, e), s.color, e.color)

RadialArgs(s, e) == <<s.x, s.y, s.radius, s.x, s.y, e.radius>>
RadialFill(r, fill) ==
    LET s == Val(fill.start)
        e == Val(fill.end)
    IN  GradientFill(CreateGradient(r, "createRadialGradient", RadialArgs(s, e), s.color, e.color),
                     "radial", RadialArgs(s, e), s.color, e.color)

ColorFill(r, c) == CtxFill(CtxFillStyle(r, ColorPaint(c), "fill"), "fill")

FillBy(b, r, f) ==
    CASE b = "color" -> ColorFill(r, f.str)
      [] b = "pattern" -> PatternFill(r, f)
      [] b = "linear" -> LinearFill(r, f)
      [] b = "radial" -> RadialFill(r, f)
      [] b = "black" -> ColorFill(r, "black")
      [] OTHER -> Raise(r)

fill(r, a) == IF Truthy(a.fill) THEN FillBy(FillBranch(a.fill), r, a.fill) ELSE r

\* an applyStyles that strokes before it restores the state saved for the fill
applyStylesBleeding(r, a) ==
    IF Truthy(a.fill)
    THEN LET r1 == CtxSave(r, "applyStyles")
             r2 == applyShadow(r1, a)
             r3 == fill(r2, a)
             r4 == stroke(r3, a)
         IN  CtxRestore(r4, "applyStyles")
    ELSE stroke(applyShadow(r, a), a)

applyStyles(r, a) ==
    IF Truthy(a.fill)
    THEN LET r1 == CtxSave(r, "applyStyles")
             r2 == applyShadow(r1, a)
             r3 == fill(r2, a)
             r4 == CtxRestore(r3, "applyStyles")
         IN  stroke(r4, a)
    ELSE stroke(applyShadow(r, a), a)

(***************************************************************************)
(* The node tree.  Each node has an optional parent, its own transform     *)
(* (what getTransform() returns), a centre offset and its absolute alpha   *)
(* (what getAbsoluteAlpha() returns, in percent).                          *)
(***************************************************************************)
Nodes == Shapes \cup {"group"}
NodeVal(parent, t, off, alpha) ==
    [parent |-> parent, transform |-> t, centerOffset |-> off, alpha |-> alpha]

\* family of _draw: the chain from the root down to node n
RECURSIVE Family(_, _)
Family(nd, n) ==
    IF nd[n].parent = None THEN <<n>>
    ELSE Append(Family(nd, Val(nd[n].parent)), n)

\* an OffsetTransform that translates by the negated offset before the node's
\* own transform
OffsetTransformPrepended(n) ==
    IF n.centerOffset[1] # 0 \/ n.centerOffset[2] # 0
    THEN Multiply(Translation(-1 * n.centerOffset[1], -1 * n.centerOffset[2]), n.transform)
    ELSE n.transform

\* t = node.getTransform(), translated by the negated centre offset when the
\* offset is not zero (Kinetic.Transform.translate multiplies on the right)
OffsetTransform(n) ==
    IF n.centerOffset[1] # 0 \/ n.centerOffset[2] # 0
    THEN Multiply(n.transform, Translation(-1 * n.centerOffset[1], -1 * n.centerOffset[2]))
    ELSE n.transform

RECURSIVE ApplyFamily(_, _, _, _)
ApplyFamily(r, nd, fam, i) ==
    IF i > Len(fam) THEN r
    ELSE ApplyFamily(CtxTransform(r, OffsetTransform(nd[fam[i]]), "_draw"), nd, fam, i + 1)

(***************************************************************************)
(* The geometry callbacks a shape can be given with setDrawFunc.  "rect"   *)
(* traces a one-by-two rectangle at the local origin and applies the       *)
(* styles; "broken" raises an error after it has traced the path.          *)
(***************************************************************************)
DrawFuncs == {"rect", "broken"}
Geometry == {<<0, 0>>, <<0, 1>>}

TracePath(r) == CtxAddPath(CtxBeginPath(r, "drawFunc"), Geometry, "drawFunc")
AfterPath(kind, r, a) == IF kind = "rect" THEN applyStyles(r, a) ELSE Raise(r)
Callback(kind, r, a) == AfterPath(kind, TracePath(r), a)

\* whether _draw(layer) gets past its guard
DrawStarts(lo, df) == lo # None /\ df # None

\* this.getContext(): the context of tempLayer, null while there is none
getContext(cx, tl) ==
    IF tl = None THEN Run(InitCtx, TRUE, None) ELSE Run(cx[Val(tl)], FALSE, tl)

\* context.save() and the transforms of the family, on the context of the layer
Prologue(cx, lo, n, nd) ==
    ApplyFamily(CtxSave(Run(cx[Val(lo)], FALSE, lo), "_draw"), nd, Family(nd, n), 1)

\* if(this.getAbsoluteAlpha() !== 1) context.globalAlpha = this.getAbsoluteAlpha()
ApplyAlpha(r, alpha) == IF alpha # 100 THEN CtxGlobalAlpha(r, alpha, "_draw") ELSE r

\* this.applyLineJoin(); this.drawFunc.call(this): the helpers draw on
\* this.getContext(), tl being the value of this.tempLayer
Styled(cx1, tl, p, a, df) ==
    Callback(Val(df), applyLineJoin(Resume(getContext(cx1, tl), p), a), a)

\* what _draw leaves behind: the contexts, tempLayer, the log and the outcome
Drawn(cx, lo, r) ==
    [ctx |-> [cx EXCEPT ![Val(lo)] = r.c], tempLayer |-> lo, log |-> r.log, threw |-> r.threw]

\* an end of _draw that does not restore the state it saved
EpilogueNoRestore(cx2, lo, h) == Drawn(cx2, lo, Resume(Run(cx2[Val(lo)], FALSE, lo), h))

\* context.restore(), on the context of the layer, when the callback has returned
Epilogue(cx2, lo, h) ==
    Drawn(cx2, lo, CtxRestore(Resume(Run(cx2[Val(lo)], FALSE, lo), h), "_draw"))

AfterCallback(cx1, lo, h) == Epilogue(Put(cx1, h), lo, h)
AfterPrologue(cx1, tl, lo, p, a, df) == AfterCallback(cx1, lo, Styled(cx1, tl, p, a, df))
WithPrologue(cx, tl, lo, p, a, df) == AfterPrologue(Put(cx, p), tl, lo, p, a, df)

\* the body of _draw(layer); tl is the value of this.tempLayer from line 371 on
DrawBody(cx, tl, lo, n, nd, a, df) ==
    WithPrologue(cx, tl, lo, ApplyAlpha(Prologue(cx, lo, n, nd), nd[n].alpha), a, df)

\* context.getImageData(0, 0, w, h).data: row-major RGBA, colour channels
\* abstracted to 0, as a 1-based sequence (JavaScript index i is element i + 1)
GetImageData(c, w, h) ==
    [i \in 1 .. 4 * w * h |->
        LET px == (i - 1) \div 4
            x == px % w
            y == px \div w
        IN  IF (i - 1) % 4 = 3 /\ <<x, y>> \in Pixels THEN c.pixels[<<x, y>>] ELSE 0]

\* this.data[i]: undefined outside the array
DataAt(d, i) == IF i >= 0 /\ i < Len(d) THEN Some(d[i + 1]) ELSE None

\* the pixel branch of intersects
PixelHit(d, w, pos) ==
    LET alpha == DataAt(d, ((w * pos[2]) + pos[1]) * 4 + 3)
    IN  alpha # None /\ alpha # Some(0)

Bool(b) == IF b THEN "true" ELSE "false"
Outcome(r) == IF r.threw THEN "threw" ELSE "ok"

Last(op, s, lo, po, result, log) ==
    [op |-> op, shape |-> s, layer |-> lo, point |-> po, result |-> result, log |-> log]

(***************************************************************************)
(* The public methods as functions of the state they read.  cx is the      *)
(* contexts of all layers, tl the shape's tempLayer, d its data.           *)
(***************************************************************************)
\* a _draw that records the layer before it tests its guard
_drawEager(cx, tl, lo, n, nd, a, df) ==
    IF DrawStarts(lo, df)
    THEN DrawBody(cx, lo, lo, n, nd, a, df)
    ELSE [ctx |-> cx, tempLayer |-> lo, log |-> <<>>, threw |-> FALSE]

\* a _draw that records the layer only when the callback has returned
_drawStaleLayer(cx, tl, lo, n, nd, a, df) ==
    IF DrawStarts(lo, df)
    THEN DrawBody(cx, tl, lo, n, nd, a, df)
    ELSE [ctx |-> cx, tempLayer |-> tl, log |-> <<>>, threw |-> FALSE]

_draw(cx, tl, lo, n, nd, a, df) ==
    IF DrawStarts(lo, df)
    THEN DrawBody(cx, lo, lo, n, nd, a, df)
    ELSE [ctx |-> cx, tempLayer |-> tl, log |-> <<>>, threw |-> FALSE]

\* bufferLayer.clear(): every pixel of the canvas transparent
Cleared(c) == [c EXCEPT !.pixels = [p \in Pixels |-> 0]]

\* imageData = bufferLayerContext.getImageData(0, 0, w, h); this.data = imageData.data
Stored(dr, d, w, h) ==
    [ctx |-> dr.ctx, tempLayer |-> dr.tempLayer, log |-> dr.log, threw |-> dr.threw,
     data |-> IF dr.threw THEN d ELSE GetImageData(dr.ctx["bufferLayer"], w, h)]

\* a saveData that renders over what the buffer layer already shows
saveDataNoClear(cx, tl, d, st, n, nd, a, df) ==
    Stored(_draw(cx, tl, Some("bufferLayer"), n, nd, a, df), d, st.width, st.height)

saveData(cx, tl, d, st, n, nd, a, df) ==
    Stored(_draw([cx EXCEPT !["bufferLayer"] = Cleared(@)], tl, Some("bufferLayer"), n, nd, a, df),
           d, st.width, st.height)

\* a clearData that leaves the buffer in place
clearDataKeeps(d) == d

clearData(d) == <<>>

\* return pathLayerContext.isPointInPath(pos.x, pos.y)
PathHit(dr, pos) ==
    [ctx |-> dr.ctx, tempLayer |-> dr.tempLayer, log |-> dr.log,
     result |-> IF dr.threw THEN "threw" ELSE Bool(pos \in dr.ctx["pathLayer"].path)]

intersects(cx, tl, d, st, pos, n, nd, a, df) ==
    IF a.detectionType = "path"
    THEN PathHit(_draw(cx, tl, Some("pathLayer"), n, nd, a, df), pos)
    ELSE [ctx |-> cx, tempLayer |-> tl, log |-> <<>>,
          result |-> Bool(PixelHit(d, st.width, pos))]

\* no context holds more than MaxDepth saved states
Bounded(cx) == \A l \in Layers : Len(cx[l].stack) <= MaxDepth

(***************************************************************************)
(* Actions: one per public call.                                           *)
(***************************************************************************)
Called == ncalls' = ncalls + 1

DrawReturns(s, lo, dr) ==
    /\ Bounded(dr.ctx)
    /\ ctx' = dr.ctx
    /\ tempLayer' = [tempLayer EXCEPT ![s] = dr.tempLayer]
    /\ last' = Last("render", s, lo, None, IF dr.threw THEN "threw" ELSE "ok", dr.log)

Draw(s, lo) ==
    /\ ncalls < MaxCalls
    /\ DrawReturns(s, lo, _draw(ctx, tempLayer[s], lo, s, node, attrs[s], drawFunc[s]))
    /\ Called
    /\ UNCHANGED <<stage, node, attrs, drawFunc, data, snapped>>

SaveDataReturns(s, sr) ==
    /\ Bounded(sr.ctx)
    /\ ctx' = sr.ctx
    /\ tempLayer' = [tempLayer EXCEPT ![s] = sr.tempLayer]
    /\ data' = [data EXCEPT ![s] = sr.data]
    /\ snapped' = [snapped EXCEPT ![s] = IF sr.threw THEN @ ELSE TRUE]
    /\ last' = Last("saveData", s, Some("bufferLayer"), None,
                    IF sr.threw THEN "threw" ELSE "ok", sr.log)

SaveData(s) ==
    /\ ncalls < MaxCalls
    /\ SaveDataReturns(s, saveData(ctx, tempLayer[s], data[s], stage, s, node, attrs[s], drawFunc[s]))
    /\ Called
    /\ UNCHANGED <<stage, node, attrs, drawFunc>>

ClearData(s) ==
    /\ ncalls < MaxCalls
    /\ data' = [data EXCEPT ![s] = clearData(@)]
    /\ snapped' = [snapped EXCEPT ![s] = FALSE]
    /\ last' = Last("clearData", s, None, None, "ok", <<>>)
    /\ Called
    /\ UNCHANGED <<stage, node, attrs, drawFunc, tempLayer, ctx>>

IntersectsReturns(s, pos, ir) ==
    /\ Bounded(ir.ctx)
    /\ ctx' = ir.ctx
    /\ tempLayer' = [tempLayer EXCEPT ![s] = ir.tempLayer]
    /\ last' = Last("intersects", s, None, Some(pos), ir.result, ir.log)

Intersects(s, pos) ==
    /\ ncalls < MaxCalls
    /\ IntersectsReturns(s, pos,
           intersects(ctx, tempLayer[s], data[s], stage, pos, s, node, attrs[s], drawFunc[s]))
    /\ Called
    /\ UNCHANGED <<stage, node, attrs, drawFunc, data, snapped>>

\* the attribute setters store the value and nothing else
SetAttr(s, name, a2) ==
    /\ ncalls < MaxCalls
    /\ attrs' = [attrs EXCEPT ![s] = a2]
    /\ last' = Last(name, s, None, None, "ok", <<>>)
    /\ Called
    /\ UNCHANGED <<stage, node, drawFunc, tempLayer, data, ctx, snapped>>

\* a setFill that also discards the cached buffer
SetFillInvalidating(s, f) ==
    /\ ncalls < MaxCalls
    /\ attrs' = [attrs EXCEPT ![s].fill = f]
    /\ data' = [data EXCEPT ![s] = <<>>]
    /\ last' = Last("setFill", s, None, None, "ok", <<>>)
    /\ Called
    /\ UNCHANGED <<stage, node, drawFunc, tempLayer, ctx, snapped>>

SetFill(s, f) == SetAttr(s, "setFill", [attrs[s] EXCEPT !.fill = f])
SetStroke(s, v) == SetAttr(s, "setStroke", [attrs[s] EXCEPT !.stroke = v])
SetLineJoin(s, v) == SetAttr(s, "setLineJoin", [attrs[s] EXCEPT !.lineJoin = v])
SetStrokeWidth(s, v) == SetAttr(s, "setStrokeWidth", [attrs[s] EXCEPT !.strokeWidth = v])
SetShadowColor(s, v) == SetAttr(s, "setShadowColor", [attrs[s] EXCEPT !.shadowColor = v])
SetShadowBlur(s, v) == SetAttr(s, "setShadowBlur", [attrs[s] EXCEPT !.shadowBlur = v])
SetShadowOffset(s, v) == SetAttr(s, "setShadowOffset", [attrs[s] EXCEPT !.shadowOffset = v])

SetDrawFunc(s, f) ==
    /\ ncalls < MaxCalls
    /\ drawFunc' = [drawFunc EXCEPT ![s] = f]
    /\ last' = Last("setDrawFunc", s, None, None, "ok", <<>>)
    /\ Called
    /\ UNCHANGED <<stage, node, attrs, tempLayer, data, ctx, snapped>>

\* the stage is given another width (stage.attrs.width); the canvases of the
\* layers keep the pixels they have
SetSize(w) ==
    /\ ncalls < MaxCalls
    /\ stage' = [stage EXCEPT !.width = w]
    /\ last' = Last("setSize", last.shape, None, None, "ok", <<>>)
    /\ Called
    /\ UNCHANGED <<node, attrs, drawFunc, tempLayer, data, ctx, snapped>>

(***************************************************************************)
(* Direct calls of the style helpers, outside a draw pass: they draw on    *)
(* the context of the layer the shape was last drawn on, or on null.       *)
(***************************************************************************)
Helper(s, name, r) ==
    /\ ncalls < MaxCalls
    /\ Len(r.c.stack) <= MaxDepth
    /\ ctx' = Put(ctx, r)
    /\ last' = Last(name, s, r.on, None, Outcome(r), r.log)
    /\ Called
    /\ UNCHANGED <<stage, node, attrs, drawFunc, tempLayer, data, snapped>>

CallFill(s) == Helper(s, "fill", fill(getContext(ctx, tempLayer[s]), attrs[s]))
CallStroke(s) == Helper(s, "stroke", stroke(getContext(ctx, tempLayer[s]), attrs[s]))
CallApplyStyles(s) ==
    Helper(s, "applyStyles", applyStyles(getContext(ctx, tempLayer[s]), attrs[s]))
CallApplyShadow(s) ==
    Helper(s, "applyShadow", applyShadow(getContext(ctx, tempLayer[s]), attrs[s]))
CallApplyLineJoin(s) ==
    Helper(s, "applyLineJoin", applyLineJoin(getContext(ctx, tempLayer[s]), attrs[s]))

(***************************************************************************)
(* Initial states: the scene as constructed.  s1 is under a group and is   *)
(* the shape whose attributes the program goes on to change; s2 is a       *)
(* sibling drawn on the same layers.                                       *)
(***************************************************************************)
Scene(gt, goff, t1, t2, alpha) ==
    [n \in Nodes |->
        IF n = "group" THEN NodeVal(None, gt, goff, 100)
        ELSE IF n = "s1" THEN NodeVal(Some("group"), t1, <<0, 0>>, alpha)
        ELSE NodeVal(None, t2, <<0, 0>>, 100)]
\* a group translated by (1, 1) about the centre offset (1, 1), s1 half transparent
OffsetScene == Scene(Translation(1, 1), <<1, 1>>, Identity, Translation(1, 0), 50)
PlainScene == Scene(Identity, <<0, 0>>, Identity, Translation(1, 0), 100)

Config(f, st, sw, lj, sc, dt) ==
    [DefaultAttrs EXCEPT !.fill = f, !.stroke = st, !.strokeWidth = sw,
                         !.lineJoin = lj, !.shadowColor = sc, !.detectionType = dt]

Sibling == Config(FillColor("green"), Some("blue"), None, None, None, "path")
Mutable == {"s1"}
OptDrawFuncs == {None} \cup {Some(k) : k \in DrawFuncs}
OptLayers == {None} \cup {Some(l) : l \in Layers}

\* the configs s1 is constructed with in the stateful specification
Configs ==
    { Config(f, Some("blue"), None, Some("round"), Some("gray"), dt) :
        f \in {FillUndefined, FillColor("green"), FillPattern(None, None)},
        dt \in {"path", "pixel"} }

\* the configs s1 is constructed with in the style specification
StyleConfigs ==
    { Config(f, st, sw, lj, sc, "path") :
        f \in FillSpecs, st \in {None, Some("blue")}, sw \in {None, Some(3)},
        lj \in {None, Some("round")}, sc \in {None, Some("gray")} }
    \cup { Config(FillUndefined, st, Some(0), None, None, "path") : st \in {None, Some("blue")} }

Blank == Last("new", "s1", None, None, "ok", <<>>)

Constructed(scenes, cfgs, dfs) ==
    /\ stage = [width |-> StageW, height |-> StageH]
    /\ node \in scenes
    /\ attrs \in {[s \in Shapes |-> IF s = "s1" THEN c ELSE Sibling] : c \in cfgs}
    /\ drawFunc \in {[s \in Shapes |-> IF s = "s1" THEN f ELSE Some("rect")] : f \in dfs}
    /\ tempLayer = [s \in Shapes |-> None]
    /\ data = [s \in Shapes |-> <<>>]
    /\ ctx = [l \in Layers |-> InitCtx]
    /\ snapped = [s \in Shapes |-> FALSE]
    /\ last = Blank
    /\ ncalls = 0

Init == Constructed({OffsetScene}, Configs, OptDrawFuncs)

\* the points hit tests are made at: inside the stage and just outside each edge
HitPoints ==
    { <<0, 0>>, <<0, 1>>, <<1, 0>>, <<StageW, 0>>, <<-1, 1>>, <<0, StageH>>, <<0, -1>> }
\* the fills the stateful specification sets
SetFills == {FillUndefined, FillColor("green"), FillPattern(None, None), FillLinear}

Next ==
    \/ \E s \in Shapes, lo \in OptLayers : Draw(s, lo)
    \/ \E s \in Shapes : SaveData(s)
    \/ \E s \in Shapes : ClearData(s)
    \/ \E s \in Shapes, pos \in HitPoints : Intersects(s, pos)
    \/ \E s \in Mutable, f \in SetFills : SetFill(s, f)
    \/ \E s \in Mutable, v \in {None, Some("blue")} : SetStroke(s, v)
    \/ \E s \in Mutable, v \in {None, Some("round")} : SetLineJoin(s, v)
    \/ \E s \in Mutable, v \in {None, Some(3)} : SetStrokeWidth(s, v)
    \/ \E s \in Mutable, v \in {None, Some("gray")} : SetShadowColor(s, v)
    \/ \E s \in Mutable, v \in {5, 0} : SetShadowBlur(s, v)
    \/ \E s \in Mutable, v \in {<<0, 0>>, <<1, 1>>} : SetShadowOffset(s, v)
    \/ \E s \in Mutable, f \in OptDrawFuncs : SetDrawFunc(s, f)

Spec == Init /\ [][Next]_vars

(***************************************************************************)
(* The style specification: s1 constructed with every combination of the   *)
(* style attributes, then drawn, and its helpers called directly.          *)
(***************************************************************************)
InitStyle == Constructed({PlainScene, OffsetScene}, StyleConfigs, {Some("rect")})

NextStyle ==
    \/ \E s \in Shapes, l \in Layers : Draw(s, Some(l))
    \/ \E s \in Mutable : CallFill(s)
    \/ \E s \in Mutable : CallStroke(s)
    \/ \E s \in Mutable : CallApplyStyles(s)
    \/ \E s \in Mutable : CallApplyShadow(s)
    \/ \E s \in Mutable : CallApplyLineJoin(s)

SpecStyle == InitStyle /\ [][NextStyle]_vars

(***************************************************************************)
(* The tree specification: scenes whose transforms do not commute, drawn   *)
(* by both callbacks on every layer.                                       *)
(***************************************************************************)
\* a group translated by (10, 10) with centre offset (5, 5) over an untransformed s1
TranslatedScene == Scene(Translation(10, 10), <<5, 5>>, Identity, Translation(1, 0), 100)
\* a group scaled by 2 and translated by (1, 1) with centre offset (1, 1),
\* over s1 translated by (1, 0)
ScaledScene == Scene(<<2, 0, 0, 2, 1, 1>>, <<1, 1>>, Translation(1, 0), Translation(1, 0), 50)

TreeConfigs == { Config(FillColor("green"), Some("blue"), None, None, None, "path") }

InitTree ==
    Constructed({TranslatedScene, ScaledScene}, TreeConfigs, {Some(k) : k \in DrawFuncs})

NextTree == \E s \in Shapes, l \in Layers : Draw(s, Some(l))

SpecTree == InitTree /\ [][NextTree]_vars

(***************************************************************************)
(* The stage specification: a shape in pixel detection mode is snapshotted *)
(* and hit-tested while the declared width of the stage changes.           *)
(***************************************************************************)
StageWidths == {StageW - 1, StageW}
StageConfigs == { Config(FillColor("green"), Some("blue"), None, None, None, "pixel") }

InitStage == Constructed({OffsetScene}, StageConfigs, {Some("rect")})

NextStage ==
    \/ \E s \in Shapes : SaveData(s)
    \/ \E s \in Shapes, pos \in HitPoints : Intersects(s, pos)
    \/ \E w \in StageWidths : SetSize(w)

SpecStage == InitStage /\ [][NextStage]_vars

(***************************************************************************)
(* What the last call was about.                                           *)
(***************************************************************************)
LastAttrs == attrs[last.shape]
\* the last call was a render that got past the guard of _draw
RenderStarted == last.op = "render" /\ last.layer # None /\ drawFunc[last.shape] # None
RenderSkipped == last.op = "render" /\ (last.layer = None \/ drawFunc[last.shape] = None)
\* the last call was a hit test on a shape in pixel detection mode
PixelTest == last.op = "intersects" /\ LastAttrs.detectionType = "pixel"
InStage(pos) == pos[1] >= 0 /\ pos[1] < StageW /\ pos[2] >= 0 /\ pos[2] < StageH

(***************************************************************************)
(* C1.  A render that starts drawing leaves the saved-state stack of its   *)
(* surface as deep as it found it, on every exit path, the one where the   *)
(* geometry callback raises included.                                      *)
(***************************************************************************)
C1_DepthKept ==
    [][ RenderStarted' =>
          Len(ctx'[Val(last'.layer)].stack) = Len(ctx[Val(last'.layer)].stack) ]_vars

(***************************************************************************)
(* C3.  A pixel-mode hit test on a shape with no snapshot taken since      *)
(* construction or since the last clearData answers false, for every       *)
(* point, and does not raise.                                              *)
(***************************************************************************)
C3_NoSnapshotNoHit == (PixelTest /\ ~snapped[last.shape]) => last.result = "false"

\* a hit test after a snapshot has been taken and discarded, at a pixel the
\* shape painted on the buffer layer
C3_Witness ==
    /\ PixelTest /\ ~snapped[last.shape] /\ last.result = "false"
    /\ tempLayer[last.shape] = Some("bufferLayer")
    /\ Val(last.point) \in Pixels
    /\ ctx["bufferLayer"].pixels[Val(last.point)] # 0

CachedAlpha(d, pos) == d[((StageW * pos[2]) + pos[1]) * 4 + 3 + 1]

(***************************************************************************)
(* C4.  After a snapshot, a pixel-mode hit test answers false for every    *)
(* point outside the stage (x < 0, x >= w, y < 0 or y >= h), and for a     *)
(* point inside answers whether the alpha of the cached pixel at column x, *)
(* row y is non-zero.                                                      *)
(***************************************************************************)
C4_BoundsChecked ==
    (PixelTest /\ snapped[last.shape]) =>
        last.result = Bool(InStage(Val(last.point))
                           /\ CachedAlpha(data[last.shape], Val(last.point)) # 0)

(***************************************************************************)
(* The operations of the last call, by the helper that issued them.        *)
(***************************************************************************)
IsPassOp(e) == e.by \in {"applyStyles", "applyShadow", "fill", "stroke"}
IsKeyOp(e) == e.by = "applyStyles" \/ e.op \in {"shadow", "fill", "stroke"}
IsFillOp(e) == e.op = "fill"
IsByFill(e) == e.by = "fill"
Ops(log) == [i \in 1 .. Len(log) |-> log[i].op]
PassLog == SelectSeq(last.log, IsPassOp)
FillLog == SelectSeq(last.log, IsByFill)
Fills == SelectSeq(last.log, IsFillOp)
IsPrefix(a, b) == Len(a) <= Len(b) /\ SubSeq(b, 1, Len(a)) = a
HasOp(log, op) == \E i \in 1 .. Len(log) : log[i].op = op

\* the last call ran applyStyles on a context: directly, or from the callback
StylePass ==
    /\ last.layer # None
    /\ \/ last.op = "applyStyles"
       \/ last.op = "render" /\ drawFunc[last.shape] = Some("rect")
\* the last call ran fill on a context
FillRan == StylePass \/ (last.op = "fill" /\ last.layer # None)

StrokeWanted(a) == TruthyStr(a.stroke) \/ TruthyNum(a.strokeWidth)
ExpectedKeys(a) ==
    (IF Truthy(a.fill) THEN <<"save", "shadow", "fill", "restore">> ELSE <<"shadow">>)
    \o (IF StrokeWanted(a) THEN <<"stroke">> ELSE <<>>)

ShadowAt(p, a) ==
    \A i \in 1 .. Len(p) :
        /\ p[i].op = "fill" => p[i].shadow = ShadowOf(a)
        /\ p[i].op = "stroke" =>
              p[i].shadow = (IF Truthy(a.fill) THEN p[1].shadow ELSE ShadowOf(a))
KeysAsExpected(p, a, done) ==
    /\ IsPrefix(Ops(SelectSeq(p, IsKeyOp)), ExpectedKeys(a))
    /\ done => Ops(SelectSeq(p, IsKeyOp)) = ExpectedKeys(a)

(***************************************************************************)
(* C2.  In an applyStyles pass on a shape with a shadow colour: with a     *)
(* fill, the operations are save, set shadow, fill, restore, stroke in     *)
(* that order, the pass's shadow is active at the fill and the state of    *)
(* before the pass is back at the stroke; without a fill, the shadow is    *)
(* set and is active at the stroke.  A pass cut short by an error has      *)
(* issued a prefix of that sequence.                                       *)
(***************************************************************************)
C2_ShadowOrder ==
    (StylePass /\ Defined(LastAttrs.shadowColor)) =>
        /\ KeysAsExpected(PassLog, LastAttrs, last.result = "ok")
        /\ ShadowAt(PassLog, LastAttrs)

\* a completed pass with shadow, fill and stroke on a context with no shadow:
\* the shadow is on at the fill and off at the stroke
C2_Witness ==
    /\ StylePass /\ last.op = "render" /\ last.result = "ok"
    /\ Defined(LastAttrs.shadowColor) /\ Truthy(LastAttrs.fill) /\ StrokeWanted(LastAttrs)
    /\ Ops(SelectSeq(PassLog, IsKeyOp)) = <<"save", "shadow", "fill", "restore", "stroke">>
    /\ \E i \in 1 .. Len(PassLog) :
          PassLog[i].op = "stroke" /\ PassLog[i].shadow = NoShadow

HasXY(o) == Defined(o) /\ Defined(Val(o).x) /\ Defined(Val(o).y)
HasRadius(o) == Defined(o) /\ Defined(Val(o).radius)
ClaimedBranch(f) ==
    IF f.typ = "string" THEN "color"
    ELSE IF Defined(f.image) THEN "pattern"
    ELSE IF HasXY(f.start) /\ HasXY(f.end) /\ ~HasRadius(f.start) /\ ~HasRadius(f.end)
         THEN "linear"
    ELSE IF HasRadius(f.start) /\ HasRadius(f.end) THEN "radial"
    ELSE "other"

(***************************************************************************)
(* C5.  Fill resolution takes one branch, by precedence: a bare colour is  *)
(* solid; an image is a pattern; start and end with x/y and no radius is   *)
(* a linear gradient; start and end both with a radius is a radial         *)
(* gradient, so start{x,y,radius,color}, end{x,y,radius,color} goes        *)
(* through createRadialGradient and not createLinearGradient.              *)
(***************************************************************************)
C5_BranchByPrecedence ==
    (FillRan /\ Truthy(LastAttrs.fill) /\ ClaimedBranch(LastAttrs.fill) # "other"
     /\ last.result = "ok") =>
        /\ Len(Fills) = 1
        /\ Fills[1].arg.kind = ClaimedBranch(LastAttrs.fill)
        /\ ClaimedBranch(LastAttrs.fill) = "radial" =>
              HasOp(last.log, "createRadialGradient") /\ ~HasOp(last.log, "createLinearGradient")

(***************************************************************************)
(* C6.  A present fill specification that matches none of the solid,       *)
(* pattern, linear and radial rules, the object with no image, start or    *)
(* end included, is resolved without an error to a black fill.             *)
(***************************************************************************)
C6_FallbackBlack ==
    (FillRan /\ Truthy(LastAttrs.fill) /\ ClaimedBranch(LastAttrs.fill) = "other") =>
        /\ last.result = "ok"
        /\ Len(Fills) = 1
        /\ Fills[1].arg = ColorPaint("black")

RepeatOf(f) == IF f.repeat = None THEN "repeat" ELSE Val(f.repeat)

(***************************************************************************)
(* C7.  A fill specification with an image is filled with a pattern of     *)
(* the given repeat mode ("repeat" when none is given); the translation    *)
(* is applied only if an offset is given, a pattern without an offset is   *)
(* filled untranslated and without an error, and with an offset the        *)
(* transform and the stack depth after the fill are those before it.       *)
(***************************************************************************)
C7_PatternFill ==
    [][ (FillRan /\ Defined(LastAttrs.fill.image))' =>
          /\ last'.result = "ok"
          /\ Len(Fills') = 1
          /\ Fills'[1].arg = Paint("pattern", "", RepeatOf(LastAttrs'.fill), <<>>, <<>>)
          /\ HasOp(FillLog', "translate") <=> Defined(LastAttrs'.fill.offset)
          /\ ctx'[Val(last'.layer)].cur.transform = ctx[Val(last'.layer)].cur.transform
          /\ Len(ctx'[Val(last'.layer)].stack) = Len(ctx[Val(last'.layer)].stack) ]_vars

(***************************************************************************)
(* C8.  render is a silent no-op when the target surface is absent or the  *)
(* shape has no geometry callback: no operation on any surface, no error,  *)
(* and tempLayer and the cached buffer as they were.                       *)
(***************************************************************************)
C8_SkippedRenderIsNoOp ==
    [][ RenderSkipped' =>
          /\ last'.log = <<>> /\ last'.result = "ok"
          /\ ctx' = ctx /\ tempLayer' = tempLayer /\ data' = data ]_vars

\* a skipped render of a shape that has been drawn and snapshotted before
C8_Witness ==
    /\ RenderSkipped /\ last.layer # None
    /\ tempLayer[last.shape] = Some("bufferLayer")
    /\ data[last.shape] # <<>>

(***************************************************************************)
(* C9.  The cached buffer changes only on saveData and clearData: style    *)
(* setters, setDrawFunc, render and intersects leave it as it is, so a     *)
(* pixel-mode hit test after them is answered from the buffer of before.   *)
(***************************************************************************)
C9_BufferOnlyBySnapshot ==
    [][ /\ last'.op \notin {"saveData", "clearData"} => data' = data
        /\ PixelTest' =>
              last'.result = Bool(PixelHit(data[last'.shape], StageW, Val(last'.point))) ]_vars

\* a setter has run on a shape that holds a snapshot with a painted pixel
C9_Witness ==
    /\ last.op \in {"setFill", "setStroke", "setDrawFunc"}
    /\ snapped[last.shape]
    /\ \E i \in 1 .. Len(data[last.shape]) : data[last.shape][i] # 0

SameState(c1, c2) ==
    /\ c1.cur.transform = c2.cur.transform
    /\ c1.cur.globalAlpha = c2.cur.globalAlpha
    /\ c1.cur.lineJoin = c2.cur.lineJoin
    /\ c1.cur.shadow = c2.cur.shadow
    /\ c1.stack = c2.stack

(***************************************************************************)
(* C10.  A render that returns normally leaves the transform, global       *)
(* alpha, line join, shadow and saved-state stack of every surface as it   *)
(* found them, whatever the shape's fill, stroke, shadow, line join,       *)
(* alpha and ancestor transforms; so does any sequence of such renders.    *)
(***************************************************************************)
C10_NoLeak ==
    [][ (last'.op = "render" /\ last'.result = "ok") =>
          \A l \in Layers : SameState(ctx'[l], ctx[l]) ]_vars

\* a render that set the transform, alpha, line join and shadow on a surface
\* and returned normally, after an earlier call
C10_Witness ==
    /\ RenderStarted /\ last.result = "ok" /\ ncalls >= 2
    /\ HasOp(last.log, "shadow") /\ HasOp(last.log, "globalAlpha")
    /\ HasOp(last.log, "lineJoin") /\ HasOp(last.log, "transform")
    /\ ctx[Val(last.layer)].cur.shadow = NoShadow
    /\ ctx[Val(last.layer)].cur.globalAlpha = 100

\* the transform a chain node contributes, and the product down to node n
NodeProduct(n) ==
    Multiply(n.transform,
             IF n.centerOffset = <<0, 0>> THEN Identity
             ELSE Translation(0 - n.centerOffset[1], 0 - n.centerOffset[2]))
RECURSIVE Composite(_, _)
Composite(nd, n) ==
    IF nd[n].parent = None THEN NodeProduct(nd[n])
    ELSE Multiply(Composite(nd, Val(nd[n].parent)), NodeProduct(nd[n]))

IsDrawTransform(e) == e.op = "transform" /\ e.by = "_draw"
DrawTransforms(log) == SelectSeq(log, IsDrawTransform)
\* the chain of n, leaf first
RECURSIVE Chain(_, _)
Chain(nd, n) == IF nd[n].parent = None THEN <<n>> ELSE <<n>> \o Chain(nd, Val(nd[n].parent))
\* where a transform puts the points the callback traces
Traced(m) == {Apply(m, p) : p \in Geometry}

(***************************************************************************)
(* C11.  A render that starts drawing issues one transform per chain node, *)
(* root first and the shape last, each the node's own transform followed   *)
(* by the translation by its negated centre offset; the path the callback  *)
(* traces lies where the product of these, applied on top of the           *)
(* transform the surface had, puts it.                                     *)
(***************************************************************************)
C11_Composite ==
    [][ RenderStarted' =>
          /\ Len(DrawTransforms(last'.log)) = Len(Chain(node, last'.shape))
          /\ \A i \in 1 .. Len(DrawTransforms(last'.log)) :
                DrawTransforms(last'.log)[i].arg =
                    NodeProduct(node[Chain(node, last'.shape)[Len(Chain(node, last'.shape)) + 1 - i]])
          /\ ctx'[Val(last'.layer)].path =
                Traced(Multiply(ctx[Val(last'.layer)].cur.transform,
                                Composite(node, last'.shape))) ]_vars

\* s1 under the group translated by (10, 10) with centre offset (5, 5), drawn
\* on an untransformed surface: the path is the geometry translated by (5, 5)
C11_Witness ==
    /\ RenderStarted /\ last.shape = "s1" /\ node = TranslatedScene
    /\ Composite(node, "s1") = Translation(5, 5)
    /\ Len(DrawTransforms(last.log)) = 2
    /\ ctx[Val(last.layer)].path = {<<5, 5>>, <<5, 6>>}

\* the last call was stroke() on a shape that has a context
StrokeCalled == last.op = "stroke" /\ last.layer # None
StrokeSet(a) == Defined(a.stroke) \/ Defined(a.strokeWidth)
WidthOrDefault(a) == IF Defined(a.strokeWidth) THEN Val(a.strokeWidth) ELSE 2
ColorOrDefault(a) == IF Defined(a.stroke) THEN Val(a.stroke) ELSE "black"

(***************************************************************************)
(* C12.  stroke() issues a stroke operation iff the stroke colour or the   *)
(* stroke width is set; the line width it puts on the surface is the set   *)
(* width, 2 when no width is set, and the stroke colour is the set colour, *)
(* black when no colour is set; when neither is set the surface is left    *)
(* as it was.                                                              *)
(***************************************************************************)
C12_StrokeDefaults ==
    [][ StrokeCalled' =>
          IF StrokeSet(LastAttrs')
          THEN /\ Ops(last'.log) = <<"lineWidth", "strokeStyle", "stroke">>
               /\ ctx'[Val(last'.layer)].cur.lineWidth = WidthOrDefault(LastAttrs')
               /\ ctx'[Val(last'.layer)].cur.strokeStyle = ColorPaint(ColorOrDefault(LastAttrs'))
          ELSE last'.log = <<>> /\ ctx' = ctx ]_vars

\* the last call was a snapshot that returned
Snapshot == last.op = "saveData" /\ last.result = "ok"
\* the pixels the shape of the last call has traced and painted on layer l
OwnPixels(l) ==
    IF drawFunc[last.shape] # None /\ (Truthy(LastAttrs.fill) \/ StrokeWanted(LastAttrs))
    THEN ctx[l].path \cap Pixels
    ELSE {}

(***************************************************************************)
(* C13.  A snapshot that returns stores the whole buffer layer as it is    *)
(* after clear and render: the buffer has one alpha per stage pixel, it is *)
(* non-zero exactly at the pixels this shape has painted in this call,     *)
(* whatever earlier snapshots of other shapes have left on the layer, and  *)
(* the buffers of the other shapes are the ones they had.                  *)
(***************************************************************************)
C13_SnapshotIsolated ==
    [][ Snapshot' =>
          /\ Len(data'[last'.shape]) = 4 * StageW * StageH
          /\ \A p \in Pixels :
                /\ CachedAlpha(data'[last'.shape], p) = ctx'["bufferLayer"].pixels[p]
                /\ CachedAlpha(data'[last'.shape], p) # 0 <=> p \in OwnPixels("bufferLayer")'
          /\ \A t \in Shapes \ {last'.shape} : data'[t] = data[t] ]_vars

\* a snapshot of a shape after the snapshot of another one that painted a
\* pixel this shape does not cover; both buffers are in place
C13_Witness ==
    /\ Snapshot /\ OwnPixels("bufferLayer") # {}
    /\ \E t \in Shapes \ {last.shape} :
          /\ snapped[t]
          /\ \E p \in Pixels :
                CachedAlpha(data[t], p) # 0 /\ CachedAlpha(data[last.shape], p) = 0

\* the last call was a hit test on a shape in path detection mode that returned
PathTest ==
    last.op = "intersects" /\ LastAttrs.detectionType = "path" /\ last.result # "threw"
\* the path the shape of the last call has traced on the path layer in that call
OwnPath == IF drawFunc[last.shape] # None THEN ctx["pathLayer"].path ELSE {}

(***************************************************************************)
(* C14.  A path-mode hit test answers whether the point lies in the path   *)
(* the shape itself has traced in that call; a shape with no geometry      *)
(* callback traces nothing and contains no point, whatever path earlier    *)
(* hit tests of other shapes have left on the path layer.                  *)
(***************************************************************************)
C14_OwnPathOnly == PathTest => last.result = Bool(Val(last.point) \in OwnPath)

\* the row width and the height of a stored buffer (the height of the stage
\* does not change)
RowWidth(d) == Len(d) \div (4 * StageH)
InBuffer(d, pos) ==
    pos[1] >= 0 /\ pos[1] < RowWidth(d) /\ pos[2] >= 0 /\ pos[2] < StageH
BufferAlpha(d, pos) == d[((RowWidth(d) * pos[2]) + pos[1]) * 4 + 3 + 1]

(***************************************************************************)
(* C15.  After a snapshot, a pixel-mode hit test at a point inside the     *)
(* buffer answers whether the alpha at column x, row y of the buffer, by   *)
(* the row width the buffer was captured with, is non-zero, also when the  *)
(* declared width of the stage has changed since the snapshot.             *)
(***************************************************************************)
C15_RowWidthOfSnapshot ==
    (PixelTest /\ snapped[last.shape] /\ InBuffer(data[last.shape], Val(last.point))) =>
        last.result = Bool(BufferAlpha(data[last.shape], Val(last.point)) # 0)

HelperNames == {"fill", "stroke", "applyStyles", "applyShadow", "applyLineJoin"}
\* every operation of the last call was issued on the context of layer lo
AllOn(log, lo) == \A i \in 1 .. Len(log) : log[i].on = lo

(***************************************************************************)
(* C16.  A shape has no context until a render of it has started.  Every   *)
(* operation of a render pass, the line join, shadow, fill and stroke      *)
(* operations of the helpers included, is issued on the layer of that      *)
(* pass, whatever layer the shape was rendered on before, and the layer    *)
(* is the shape's active one when the pass is over; a helper called        *)
(* outside a pass draws on the layer of the latest pass, and issues        *)
(* nothing while there has been none.                                      *)
(***************************************************************************)
C16_ActiveSurface ==
    [][ /\ RenderStarted' =>
              /\ AllOn(last'.log, last'.layer)
              /\ tempLayer'[last'.shape] = last'.layer
        /\ \A s \in Shapes :
              (tempLayer[s] = None /\ ~(RenderStarted' /\ last'.shape = s)) =>
                  tempLayer'[s] = None
        /\ last'.op \in HelperNames =>
              /\ last'.layer = tempLayer[last'.shape]
              /\ AllOn(last'.log, tempLayer[last'.shape])
              /\ tempLayer[last'.shape] = None => last'.log = <<>> ]_vars

\* a pass of s1 with line join, shadow, fill and stroke on one layer, after a
\* pass of s1 that traced the same path on another layer
C16_Witness ==
    /\ RenderStarted /\ last.shape = "s1" /\ last.result = "ok"
    /\ HasOp(last.log, "lineJoin") /\ HasOp(last.log, "shadow")
    /\ HasOp(last.log, "fill") /\ HasOp(last.log, "stroke")
    /\ AllOn(last.log, last.layer)
    /\ \E l \in Layers \ {Val(last.layer)} :
          ctx[l].path # {} /\ ctx[l].path = ctx[Val(last.layer)].path

====
